---- MODULE Spec2Model ----
(***************************************************************************)
(* MultiQC log parsers: the Prokka annotation-summary module               *)
(* (multiqc/modules/prokka/prokka.py) and the DRAGEN RNA transcript        *)
(* coverage module (multiqc/modules/dragen/rna_transcript_cov.py).         *)
(*                                                                         *)
(* Text is a sequence of symbols.  A symbol is ":" , a whitespace          *)
(* character (" ", "\t", "\n") or an atom: a maximal run of characters     *)
(* holding neither a colon nor whitespace ("organism", "12", "Sample1").   *)
(* Python's str methods are modelled on that representation.               *)
(***************************************************************************)
EXTENDS Integers, Sequences, FiniteSets, TLC

\* Files handed out by find_log_files in one run (bound of the model).
MaxFiles == 2

NL == "\n"
SP == " "
TAB == "\t"
COLON == ":"

Whitespace == {SP, TAB, NL}

----------------------------------------------------------------------------
(* Python str operations                                                   *)

RECURSIVE SplitWsFrom(_, _, _)
SplitWsFrom(s, i, cur) ==
  IF i > Len(s)
    THEN (IF cur = <<>> THEN <<>> ELSE <<cur>>)
    ELSE IF s[i] \in Whitespace
      THEN (IF cur = <<>>
              THEN SplitWsFrom(s, i + 1, <<>>)
              ELSE <<cur>> \o SplitWsFrom(s, i + 1, <<>>))
      ELSE SplitWsFrom(s, i + 1, Append(cur, s[i]))

\* s.split(): the words of s, runs of whitespace being one separator
SplitWs(s) == SplitWsFrom(s, 1, <<>>)

RECURSIVE SplitSepFrom(_, _, _, _, _)
SplitSepFrom(s, i, cur, sep, left) ==
  IF i > Len(s)
    THEN <<cur>>
    ELSE IF s[i] = sep /\ left # 0
      THEN <<cur>> \o SplitSepFrom(s, i + 1, <<>>, sep, left - 1)
      ELSE SplitSepFrom(s, i + 1, Append(cur, s[i]), sep, left)

\* s.split(sep): every separator splits, empty pieces kept
SplitSep(s, sep) == SplitSepFrom(s, 1, <<>>, sep, -1)

\* s.split(sep, 1): only the first separator splits
SplitSepOnce(s, sep) == SplitSepFrom(s, 1, <<>>, sep, 1)

RECURSIVE LStrip(_)
LStrip(s) ==
  IF s # <<>> /\ Head(s) \in Whitespace THEN LStrip(Tail(s)) ELSE s

RECURSIVE RStrip(_)
RStrip(s) ==
  IF s # <<>> /\ s[Len(s)] \in Whitespace
    THEN RStrip(SubSeq(s, 1, Len(s) - 1))
    ELSE s

\* s.strip()
Strip(s) == RStrip(LStrip(s))

RECURSIVE JoinSp(_)
\* " ".join(words)
JoinSp(words) ==
  IF words = <<>> THEN <<>>
  ELSE IF Len(words) = 1 THEN words[1]
  ELSE words[1] \o <<SP>> \o JoinSp(Tail(words))

\* s.startswith(prefix)
StartsWith(s, prefix) ==
  Len(s) >= Len(prefix) /\ SubSeq(s, 1, Len(prefix)) = prefix

\* words[a:]
SliceFrom(words, a) == SubSeq(words, a + 1, Len(words))

\* words[:b]
SliceTo(words, b) ==
  SubSeq(words, 1, IF Len(words) < b THEN Len(words) ELSE b)

\* The atoms that int() accepts, with their values.
IntLit ==
  ("12" :> 12) @@ ("1600000" :> 1600000) @@ ("1500" :> 1500) @@ ("7" :> 7)
  @@ ("300" :> 300) @@ ("40" :> 40) @@ ("3" :> 3) @@ ("9" :> 9) @@ ("5" :> 5)
  @@ ("8" :> 8) @@ ("10" :> 10) @@ ("2" :> 2) @@ ("1" :> 1) @@ ("4" :> 4)
  @@ ("-5" :> -5)

\* int(s) succeeds: surrounding whitespace is ignored, the rest is one literal
IntOk(s) == Len(Strip(s)) = 1 /\ Strip(s)[1] \in DOMAIN IntLit

\* int(s) when it succeeds
IntOf(s) == IntLit[Strip(s)[1]]

\* The atoms that float() accepts, with their values in hundredths.
FloatLit ==
  ("1" :> 100) @@ ("1.0" :> 100) @@ ("2" :> 200) @@ ("3" :> 300)
  @@ ("0.05" :> 5) @@ ("0.12" :> 12) @@ ("0.30" :> 30) @@ ("9" :> 900)

\* float(word) succeeds (word is a whitespace-free token)
FloatOk(w) == Len(w) = 1 /\ w[1] \in DOMAIN FloatLit

\* Values of a record: an int or a str (prokka), a float or a str (dragen).
NumVal(n) == [isNum |-> TRUE, n |-> n, s |-> <<>>]
StrVal(s) == [isNum |-> FALSE, n |-> 0, s |-> s]

\* d[k] = v on a dict d
Put(d, k, v) == [x \in DOMAIN d \cup {k} |-> IF x = k THEN v ELSE d[x]]

\* dict()
EmptyDict == [x \in {} |-> 0]

----------------------------------------------------------------------------
(* Prokka: the pure parts of parse_prokka                                  *)

\* readline() on the k-th line of a handle: "" at end of file
ReadLine(lines, k) == IF k <= Len(lines) THEN lines[k] ELSE <<>>

\* Mutant of HeaderAccepted: any() in place of all()
HeaderAcceptedAny(first_line, contigs_line, bases_line) ==
  \/ StartsWith(first_line, <<"organism", COLON>>)
  \/ StartsWith(contigs_line, <<"contigs", COLON>>)
  \/ StartsWith(bases_line, <<"bases", COLON>>)

\* The three-line signature test: all(...startswith...)
HeaderAccepted(first_line, contigs_line, bases_line) ==
  /\ StartsWith(first_line, <<"organism", COLON>>)
  /\ StartsWith(contigs_line, <<"contigs", COLON>>)
  /\ StartsWith(bases_line, <<"bases", COLON>>)

\* " ".join(first_line.strip().split(":", 1)[1].split()[:2])
OrganismOf(first_line) ==
  JoinSp(SliceTo(SplitWs(SplitSepOnce(Strip(first_line), COLON)[2]), 2))

\* " ".join(first_line.split()[3:]), the name handed to clean_s_name
RawSampleName(first_line) == JoinSp(SliceFrom(SplitWs(first_line), 3))

\* first_line.strip().split(":", 1)[1], the organism of the KeyError branch
OrganismFallback(first_line) == SplitSepOnce(Strip(first_line), COLON)[2]

\* The module anchor given to BaseMultiqcModule.__init__
Anchor == "prokka"

\* The three-way test of the configuration that sets should_use_filename
ShouldUseFilename(c) ==
  IF c.use_is_list
    THEN Anchor \in c.use_list
    ELSE IF c.use_is_true THEN TRUE ELSE c.prokka_fn_snames

\* The branch that logs the deprecation warning is taken
DeprecatedBranch(c) ==
  ~c.use_is_list /\ ~c.use_is_true /\ c.prokka_fn_snames

\* int(contigs_line.split(":")[1]) and int(bases_line.split(":")[1])
CountField(line) == SplitSep(line, COLON)[2]

\* clean_s_name of the base module: "keep" leaves the name alone, "firstword"
\* stands for a truncating rule that keeps the text before the first space.
CleanSName(mode, name) ==
  IF mode = "keep" \/ SplitWs(name) = <<>> THEN name ELSE SplitWs(name)[1]

\* ignore_samples of the base module: drops the ignored sample names
IgnoreSamples(data, ignored) ==
  [n \in DOMAIN data \ ignored |-> data[n]]

KeyOrganism == <<"organism">>
KeyContigs == <<"contigs">>
KeyBases == <<"bases">>

----------------------------------------------------------------------------
(* The files a search can discover                                         *)

\* A prokka summary: the three leading lines, then the given lines
Summary(org, contigs, bases, rest) ==
  << <<"organism", COLON>> \o org \o <<NL>>,
     <<"contigs", COLON>> \o contigs \o <<NL>>,
     <<"bases", COLON>> \o bases \o <<NL>> >> \o rest

\* A file descriptor of find_log_files("prokka", filehandles=True): the lines
\* behind f["f"], f["s_name"], and whether clean_s_name raises KeyError on it
PFile(lines, s_name, keyerr) ==
  [lines |-> lines, s_name |-> <<s_name>>, clean_keyerror |-> keyerr]

ProkkaFiles ==
  << \* 1: the documented example
     PFile(Summary(<<SP, "Helicobacter", SP, "pylori", SP, "Sample1">>,
                   <<SP, "12">>, <<SP, "1600000">>,
                   << <<"CDS", COLON, SP, "1500", NL>> >>), "fileA", FALSE),
     \* 2: another report of the same sample, with other fields
     PFile(Summary(<<SP, "Escherichia", SP, "coli", SP, "Sample1">>,
                   <<SP, "7">>, <<SP, "300">>,
                   << <<"tRNA", COLON, SP, "40", NL>> >>), "fileB", FALSE),
     \* 3: no whitespace after "organism:"; a value that is no integer
     PFile(Summary(<<"Helicobacter", SP, "pylori", SP, "Sample2">>,
                   <<SP, "3">>, <<SP, "9">>,
                   << <<"CDS", COLON, SP, "4", NL>>,
                      <<"CDS", COLON, SP, "x", NL>>,
                      <<"rRNA", COLON, SP, "5", NL>> >>), "fileC", FALSE),
     \* 4: a capital O, so not a prokka summary
     PFile(<< <<"Organism", COLON, SP, "Genus", SP, "species", SP, "S", NL>>,
              <<"contigs", COLON, SP, "1", NL>>,
              <<"bases", COLON, SP, "2", NL>> >>, "fileD", FALSE),
     \* 5: ends after two lines, so not a prokka summary
     PFile(<< <<"organism", COLON, SP, "Genus", SP, "species", SP, "S", NL>>,
              <<"contigs", COLON, SP, "1", NL>> >>, "fileE", FALSE),
     \* 6: a line with no colon among the remaining lines
     PFile(Summary(<<SP, "Genus", SP, "species", SP, "Sample3">>,
                   <<SP, "1">>, <<SP, "2">>,
                   << <<"CDS", COLON, SP, "10", NL>>,
                      <<"nocolon", NL>>,
                      <<"rRNA", COLON, SP, "2", NL>> >>), "fileF", FALSE),
     \* 7: a line with two colons among the remaining lines
     PFile(Summary(<<SP, "Genus", SP, "species", SP, "Sample3">>,
                   <<SP, "1">>, <<SP, "2">>,
                   << <<"gene", COLON, SP, "1", COLON, SP, "2", NL>>,
                      <<"CDS", COLON, SP, "8", NL>> >>), "fileG", FALSE),
     \* 8: a contigs count that is no integer, same sample as 1 and 2
     PFile(Summary(<<SP, "Genus", SP, "species", SP, "Sample1">>,
                   <<SP, "x">>, <<SP, "2">>,
                   << <<"CDS", COLON, SP, "8", NL>> >>), "fileH", FALSE),
     \* 9: a negative contigs count, a bases count that is no integer
     PFile(Summary(<<SP, "Genus", SP, "species", SP, "Sample4">>,
                   <<SP, "-5">>, <<>>, <<>>), "fileI", FALSE),
     \* 10: remaining lines that name the leading keys again
     PFile(Summary(<<SP, "Genus", SP, "species", SP, "Sample5">>,
                   <<SP, "1">>, <<SP, "2">>,
                   << <<"contigs", COLON, "8", NL>>,
                      <<"organism", COLON, "5", NL>>,
                      <<"CDS", COLON, "3", NL>> >>), "fileJ", FALSE),
     \* 11: tabs and runs of blanks, a sample name of two words
     PFile(Summary(<<SP, "Genus", TAB, "species", SP, SP, "Sample1", SP, SP, "rep2">>,
                   <<SP, "4">>, <<SP, "9">>, <<>>), "fileK", FALSE),
     \* 12: the documented example, on a descriptor clean_s_name cannot read
     PFile(Summary(<<SP, "Helicobacter", SP, "pylori", SP, "Sample1">>,
                   <<SP, "12">>, <<SP, "1600000">>,
                   << <<"CDS", COLON, SP, "1500", NL>> >>), "fileL", TRUE),
     \* 13: an organism of one word and no sample name
     PFile(Summary(<<SP, "Genus">>, <<SP, "1">>, <<SP, "2">>, <<>>),
           "fileM", FALSE)
  >>

PIds == 1 .. Len(ProkkaFiles)

\* config.use_filename_as_sample_name (a list, True or anything else) and
\* config.prokka_fn_snames
Configs ==
  [use_is_list : {FALSE}, use_is_true : BOOLEAN, use_list : {{}},
   prokka_fn_snames : BOOLEAN]
  \cup
  [use_is_list : {TRUE}, use_is_true : {FALSE},
   use_list : {{"prokka", "fastqc"}, {"fastqc"}},
   prokka_fn_snames : BOOLEAN]

CleanModes == {"keep", "firstword"}

----------------------------------------------------------------------------
(* State                                                                   *)

VARIABLES
  module,          \* which module's constructor runs: "prokka" or "dragen"
  cfg,             \* the configuration read at parse time
  cleanMode,       \* the sample-name cleaning rule in force
  pc,              \* "loop", "lines", "raised", "no_samples" or "done"
  nfiles,          \* files find_log_files has handed out so far
  prokka,          \* self.prokka: sample name -> record
  cur,             \* the parse_prokka call under way or just ended: its file,
                   \* sample name and next line, and (history) the record
                   \* and the length of the log before the last line read
  data_by_sample,  \* dragen: sample name -> coverage series
  lastParse,       \* dragen: what the last parse_rna_transcript_cov call gave
  log,             \* the messages logged, in order
  sources,         \* the add_data_source calls, in order
  outputs,         \* what has been written to the report
  hist             \* the registrations made, in order (history variable)

vars == <<module, cfg, cleanMode, pc, nfiles, prokka, cur, data_by_sample,
          lastParse, log, sources, outputs, hist>>

NoCall ==
  [f |-> 0, accepted |-> FALSE, s_name |-> <<>>, pos |-> 0,
   before |-> EmptyDict, logBefore |-> 0]
NoParse == [f |-> 0, raised |-> FALSE, data |-> EmptyDict]
DefaultCfg ==
  [use_is_list |-> FALSE, use_is_true |-> FALSE, use_list |-> {},
   prokka_fn_snames |-> FALSE]

Msg(kind, text) == [kind |-> kind, text |-> text]

Init ==
  /\ module \in {"prokka", "dragen"}
  /\ cfg \in (IF module = "prokka" THEN Configs ELSE {DefaultCfg})
  /\ cleanMode \in CleanModes
  /\ pc = "loop"
  /\ nfiles = 0
  /\ prokka = EmptyDict
  /\ cur = NoCall
  /\ data_by_sample = EmptyDict
  /\ lastParse = NoParse
  /\ log = <<>>
  /\ sources = <<>>
  /\ outputs = {}
  /\ hist = <<>>

----------------------------------------------------------------------------
(* Prokka: parse_prokka and the constructor around it                      *)

\* Mutant of FreshRecord: the record of an earlier file is kept and added to
FreshRecordKeepsOld(data, s_name) ==
  IF s_name \in DOMAIN data THEN data[s_name] ELSE EmptyDict

\* self.prokka[s_name] = dict(): the record a registration starts from
FreshRecord(data, s_name) == EmptyDict

\* Mutant of LineResult: a value that is no integer is stored as 0
LineResultStoresZero(rec, line) ==
  LET parts == SplitSep(line, COLON) IN
  IF Len(parts) # 2
    THEN [raised |-> TRUE, warned |-> FALSE, rec |-> rec]
    ELSE [raised |-> FALSE, warned |-> ~IntOk(parts[2]),
          rec |-> Put(rec, parts[1],
                      NumVal(IF IntOk(parts[2]) THEN IntOf(parts[2]) ELSE 0))]

\* One pass of "for line in f['f']" over a record: the line does not unpack
\* into two (ValueError leaves the loop), or int(value) is stored, or it is
\* not an integer and a warning is logged
LineResult(rec, line) ==
  LET parts == SplitSep(line, COLON) IN
  IF Len(parts) # 2
    THEN [raised |-> TRUE, warned |-> FALSE, rec |-> rec]
    ELSE IF IntOk(parts[2])
      THEN [raised |-> FALSE, warned |-> FALSE,
            rec |-> Put(rec, parts[1], NumVal(IntOf(parts[2])))]
      ELSE [raised |-> FALSE, warned |-> TRUE, rec |-> rec]

\* Mutant of NoSamples: the empty mapping is not noticed
NoSamplesNeverRaised(data) == FALSE

\* len(self.prokka) == 0
NoSamples(data) == Cardinality(DOMAIN data) = 0

\* parse_prokka on a file that fails the signature test: return at once
ParseDecline(f) ==
  LET F == ProkkaFiles[f] IN
  /\ module = "prokka" /\ pc = "loop" /\ nfiles < MaxFiles
  /\ ~HeaderAccepted(ReadLine(F.lines, 1), ReadLine(F.lines, 2),
                     ReadLine(F.lines, 3))
  /\ nfiles' = nfiles + 1
  /\ cur' = [f |-> f, accepted |-> FALSE, s_name |-> <<>>, pos |-> 4,
             before |-> EmptyDict, logBefore |-> Len(log)]
  /\ UNCHANGED <<module, cfg, cleanMode, pc, prokka, data_by_sample,
                 lastParse, log, sources, outputs, hist>>

\* parse_prokka on an accepted file, up to the loop over the remaining
\* lines: names the sample, registers a fresh record and fills organism,
\* contigs and bases; int() of a count may raise ValueError on the way
ParseAccept(f) ==
  LET F == ProkkaFiles[f]
      first_line == ReadLine(F.lines, 1)
      contigs_line == ReadLine(F.lines, 2)
      bases_line == ReadLine(F.lines, 3)
      organism == IF F.clean_keyerror THEN OrganismFallback(first_line)
                                      ELSE OrganismOf(first_line)
      derived == IF F.clean_keyerror
                   THEN F.s_name
                   ELSE CleanSName(cleanMode, RawSampleName(first_line))
      s_name == IF ShouldUseFilename(cfg) THEN F.s_name ELSE derived
      warn == IF DeprecatedBranch(cfg)
                THEN <<Msg("warning_deprecated", <<>>)>> ELSE <<>>
      dup == IF s_name \in DOMAIN prokka
               THEN <<Msg("debug_duplicate", s_name)>> ELSE <<>>
      rec0 == Put(FreshRecord(prokka, s_name), KeyOrganism, StrVal(organism))
      contigsOk == IntOk(CountField(contigs_line))
      rec1 == Put(rec0, KeyContigs, NumVal(IntOf(CountField(contigs_line))))
      basesOk == IntOk(CountField(bases_line))
      rec2 == Put(rec1, KeyBases, NumVal(IntOf(CountField(bases_line))))
      rec == IF ~contigsOk THEN rec0 ELSE IF ~basesOk THEN rec1 ELSE rec2
  IN
  /\ module = "prokka" /\ pc = "loop" /\ nfiles < MaxFiles
  /\ HeaderAccepted(first_line, contigs_line, bases_line)
  /\ nfiles' = nfiles + 1
  /\ log' = log \o warn \o dup
  /\ prokka' = Put(prokka, s_name, rec)
  /\ cur' = [f |-> f, accepted |-> TRUE, s_name |-> s_name, pos |-> 4,
             before |-> EmptyDict, logBefore |-> Len(log')]
  /\ hist' = Append(hist, [f |-> f, name |-> s_name,
                           cleanArg |-> RawSampleName(first_line),
                           organism |-> organism,
                           override |-> ShouldUseFilename(cfg),
                           fallback |-> F.clean_keyerror])
  /\ pc' = IF contigsOk /\ basesOk THEN "lines" ELSE "raised"
  /\ UNCHANGED <<module, cfg, cleanMode, data_by_sample, lastParse, sources,
                 outputs>>

\* One remaining line of the file under way
ParseLine ==
  LET F == ProkkaFiles[cur.f]
      line == F.lines[cur.pos]
      r == LineResult(prokka[cur.s_name], line)
  IN
  /\ module = "prokka" /\ pc = "lines" /\ cur.pos <= Len(F.lines)
  /\ prokka' = [prokka EXCEPT ![cur.s_name] = r.rec]
  /\ log' = IF r.warned THEN Append(log, Msg("warning_line", line)) ELSE log
  /\ cur' = [cur EXCEPT !.pos = cur.pos + 1,
                        !.before = prokka[cur.s_name],
                        !.logBefore = Len(log)]
  /\ pc' = IF r.raised THEN "raised" ELSE "lines"
  /\ UNCHANGED <<module, cfg, cleanMode, nfiles, data_by_sample, lastParse,
                 sources, outputs, hist>>

\* The lines are exhausted: add_data_source, and parse_prokka returns
ParseEnd ==
  /\ module = "prokka" /\ pc = "lines"
  /\ cur.pos > Len(ProkkaFiles[cur.f].lines)
  /\ sources' = Append(sources, [f |-> cur.f, s_name |-> cur.s_name])
  /\ pc' = "loop"
  /\ UNCHANGED <<module, cfg, cleanMode, nfiles, prokka, cur, data_by_sample,
                 lastParse, log, outputs, hist>>

\* The rest of __init__ once find_log_files is exhausted: ignore_samples,
\* ModuleNoSamplesFound on an empty mapping, else the data file, the general
\* statistics columns and the sections the configuration asks for
ProkkaFinish ==
  /\ module = "prokka" /\ pc = "loop"
  /\ \E ignored \in SUBSET DOMAIN prokka, table \in BOOLEAN, barplot \in BOOLEAN :
       LET kept == IgnoreSamples(prokka, ignored) IN
       /\ prokka' = kept
       /\ IF NoSamples(kept)
            THEN /\ pc' = "no_samples"
                 /\ UNCHANGED <<log, outputs>>
            ELSE /\ pc' = "done"
                 /\ log' = Append(log, Msg("info_found", <<>>))
                 /\ outputs' = {"data_file", "software_version", "general_stats"}
                      \cup (IF table THEN {"section_table"} ELSE {})
                      \cup (IF barplot THEN {"section_barplot"} ELSE {})
  /\ UNCHANGED <<module, cfg, cleanMode, nfiles, cur, data_by_sample,
                 lastParse, sources, hist>>

NextProkka ==
  \/ \E f \in PIds : ParseDecline(f)
  \/ \E f \in PIds : ParseAccept(f)
  \/ ParseLine
  \/ ParseEnd
  \/ ProkkaFinish

----------------------------------------------------------------------------
(* DRAGEN: parse_rna_transcript_cov and add_rna_transcript_coverage        *)

RECURSIVE SplitLinesFrom(_, _, _)
SplitLinesFrom(s, i, acc) ==
  IF i > Len(s)
    THEN (IF acc = <<>> THEN <<>> ELSE <<acc>>)
    ELSE IF s[i] = NL
      THEN <<acc>> \o SplitLinesFrom(s, i + 1, <<>>)
      ELSE SplitLinesFrom(s, i + 1, Append(acc, s[i]))

\* s.splitlines(): the line ends dropped, no empty last line
SplitLines(s) == SplitLinesFrom(s, 1, <<>>)

CovSuffix == ".quant.transcript_coverage.txt"

RECURSIVE LastIndexOf(_, _, _)
LastIndexOf(s, x, i) ==
  IF i = 0 \/ s[i] = x THEN i ELSE LastIndexOf(s, x, i - 1)

\* re.search(r"(.*).quant.transcript_coverage.txt", fn).group(1): greedy, so
\* all that precedes the last occurrence of the suffix
FnSampleName(fn) == SubSeq(fn, 1, LastIndexOf(fn, CovSuffix, Len(fn)) - 1)

\* try: x = float(x) / except ValueError: pass
Coerce(w) == IF FloatOk(w) THEN NumVal(FloatLit[w[1]]) ELSE StrVal(w)

\* f["f"].splitlines()[1:]
BodyLines(text) == SliceFrom(SplitLines(text), 1)

\* Mutant of CovStore: a percentile seen before keeps its first coverage
CovStoreKeepsFirst(data, percentile, coverage) ==
  IF percentile \in DOMAIN data THEN data ELSE Put(data, percentile, coverage)

\* data[percentile] = coverage
CovStore(data, percentile, coverage) == Put(data, percentile, coverage)

RECURSIVE CovBody(_, _, _)
\* The loop over the body lines: a line that does not unpack into two
\* tokens raises ValueError and ends the call
CovBody(lines, i, data) ==
  IF i > Len(lines)
    THEN [raised |-> FALSE, data |-> data]
    ELSE LET toks == SplitWs(lines[i]) IN
         IF Len(toks) # 2
           THEN [raised |-> TRUE, data |-> data]
           ELSE CovBody(lines, i + 1,
                        CovStore(data, Coerce(toks[1]), Coerce(toks[2])))

\* parse_rna_transcript_cov(f)
ParseRnaTranscriptCov(F) ==
  LET r == CovBody(BodyLines(F.text), 1, EmptyDict) IN
  [raised |-> r.raised, s_name |-> FnSampleName(F.fn), data |-> r.data]

\* A file descriptor of find_log_files("dragen/rna_transcript_cov")
DFile(stem, s_name, text) ==
  [fn |-> <<stem, CovSuffix>>, s_name |-> <<s_name>>, text |-> text]

CovHeader == <<"Percentile", TAB, "Coverage", NL>>

CovFiles ==
  << \* 1: the documented example
     DFile("sampleA", "a1", CovHeader \o <<"1", TAB, "0.05", NL, "2", TAB, "0.12", NL>>),
     \* 2: a file of the same name in another directory
     DFile("sampleA", "a2", CovHeader \o <<"3", TAB, "0.30", NL>>),
     \* 3: two lines whose first columns parse to the same number
     DFile("sampleB", "b", CovHeader
             \o <<"1", SP, "0.05", NL, "1.0", SP, "0.12", NL, "2", SP, "0.30", NL>>),
     \* 4: a line of three tokens
     DFile("sampleC", "c", CovHeader
             \o <<"1", TAB, "0.05", TAB, "9", NL, "2", TAB, "0.12", NL>>),
     \* 5: an empty line in the body
     DFile("sampleD", "d", CovHeader
             \o <<"1", TAB, "0.05", NL, NL, "2", TAB, "0.12", NL>>),
     \* 6: tokens that are no numbers
     DFile("sampleE", "e", CovHeader
             \o <<"x", TAB, "0.05", NL, "2", TAB, "NA", NL>>),
     \* 7: a header and nothing else
     DFile("sampleF", "f", CovHeader),
     \* 8: an empty file
     DFile("sampleG", "g", <<>>),
     \* 9: no line end after the last line
     DFile("sampleH", "h", CovHeader \o <<"1", TAB, "0.05", NL, "2", TAB, "0.12">>)
  >>

DIds == 1 .. Len(CovFiles)

\* One pass of the loop of add_rna_transcript_coverage: parse, clean the
\* name, note a duplicate, add the data source, store the series; a
\* ValueError of the parse leaves the loop and the method
AddCovFile(f) ==
  LET F == CovFiles[f]
      r == ParseRnaTranscriptCov(F)
      s_name == CleanSName(cleanMode, r.s_name)
  IN
  /\ module = "dragen" /\ pc = "loop" /\ nfiles < MaxFiles
  /\ nfiles' = nfiles + 1
  /\ IF r.raised
       THEN /\ pc' = "raised"
            /\ lastParse' = [f |-> f, raised |-> TRUE, data |-> EmptyDict]
            /\ UNCHANGED <<data_by_sample, log, sources, hist>>
       ELSE /\ pc' = "loop"
            /\ lastParse' = [f |-> f, raised |-> FALSE, data |-> r.data]
            /\ log' = IF s_name \in DOMAIN data_by_sample
                        THEN Append(log, Msg("debug_duplicate", s_name))
                        ELSE log
            /\ sources' = Append(sources, [f |-> f, s_name |-> F.s_name])
            /\ data_by_sample' = Put(data_by_sample, s_name, r.data)
            /\ hist' = Append(hist, [f |-> f, name |-> s_name,
                                     cleanArg |-> r.s_name,
                                     organism |-> <<>>,
                                     override |-> FALSE,
                                     fallback |-> FALSE])
  /\ UNCHANGED <<module, cfg, cleanMode, prokka, cur, outputs>>

\* The rest of add_rna_transcript_coverage: ignore_samples, then return
\* set() on an empty mapping or add the section and return the names
CovFinish ==
  /\ module = "dragen" /\ pc = "loop"
  /\ \E ignored \in SUBSET DOMAIN data_by_sample :
       LET kept == IgnoreSamples(data_by_sample, ignored) IN
       /\ data_by_sample' = kept
       /\ outputs' = IF DOMAIN kept = {} THEN outputs
                     ELSE outputs \cup {"section_rna_transcript_cov"}
  /\ pc' = "done"
  /\ UNCHANGED <<module, cfg, cleanMode, nfiles, prokka, cur, lastParse,
                 log, sources, hist>>

NextDragen ==
  \/ \E f \in DIds : AddCovFile(f)
  \/ CovFinish

Next == NextProkka \/ NextDragen

Spec == Init /\ [][Next]_vars

----------------------------------------------------------------------------
(* Vocabulary of the properties                                            *)

\* How many messages of a kind the log holds
CountKind(kind) == Cardinality({i \in DOMAIN log : log[i].kind = kind})

\* The last registration made under a name
LastReg(n) ==
  hist[CHOOSE i \in DOMAIN hist :
         /\ hist[i].name = n
         /\ \A j \in DOMAIN hist : hist[j].name = n => j <= i]

RegisteredNames == {hist[i].name : i \in DOMAIN hist}

\* No parse_prokka call is under way and the mapping is not yet filtered
BetweenCalls == pc \in {"loop", "raised"}

\* The remaining lines (after the third) of a prokka file
RestLines(F) == {k \in DOMAIN F.lines : k > 3}

\* A remaining line that is not of the form description:value
MalformedLine(line) == Len(SplitSep(line, COLON)) # 2

\* The three leading lines carry the three prefixes, in order
Signature(F) ==
  /\ Len(F.lines) >= 3
  /\ StartsWith(F.lines[1], <<"organism", COLON>>)
  /\ StartsWith(F.lines[2], <<"contigs", COLON>>)
  /\ StartsWith(F.lines[3], <<"bases", COLON>>)

\* The two counts of an accepted file convert to integers
CountsConvert(F) ==
  /\ IntOk(SplitSep(F.lines[2], COLON)[2])
  /\ IntOk(SplitSep(F.lines[3], COLON)[2])

----------------------------------------------------------------------------
(* C1: a malformed line in one file never aborts the run.  Stated on the   *)
(* file just handed to the parser: when its only defect is a malformed     *)
(* line (prokka: a remaining line without exactly one colon; dragen: a     *)
(* body line without exactly two tokens), the run has not been aborted     *)
(* and goes on to the next file.                                           *)
C1_MalformedLineNeverAborts ==
  /\ ( /\ module = "prokka" /\ cur.accepted
       /\ CountsConvert(ProkkaFiles[cur.f])
       /\ \E k \in RestLines(ProkkaFiles[cur.f]) :
             MalformedLine(ProkkaFiles[cur.f].lines[k]) )
     => pc # "raised"
  /\ ( /\ module = "dragen" /\ lastParse.f # 0
       /\ \E k \in DOMAIN BodyLines(CovFiles[lastParse.f].text) :
             Len(SplitWs(BodyLines(CovFiles[lastParse.f].text)[k])) # 2 )
     => pc # "raised"

(* C2: the record is registered under the file's own name whenever the     *)
(* global option is a list holding the anchor, or is True, or the          *)
(* deprecated flag is set -- the flag forcing it for every value of the    *)
(* global option.                                                          *)
C2_FilenameWheneverAnyOptionSet ==
  module = "prokka" =>
    \A i \in DOMAIN hist :
      ( \/ (cfg.use_is_list /\ Anchor \in cfg.use_list)
        \/ cfg.use_is_true
        \/ cfg.prokka_fn_snames )
      => hist[i].name = ProkkaFiles[hist[i].f].s_name

(* C3: with no filename override (and name cleaning not failing), the      *)
(* organism is the first two words of the text after the first colon of    *)
(* line 1 and the name handed to name cleaning is the rest of those words, *)
(* joined by single spaces -- also with no blank after "organism:".        *)
C3_NameIsTextAfterOrganism ==
  module = "prokka" =>
    \A i \in DOMAIN hist :
      LET line1 == ProkkaFiles[hist[i].f].lines[1]
          text == SubSeq(line1, 3, Len(line1))
          words == SplitWs(text)
      IN (~hist[i].override /\ ~hist[i].fallback) =>
           /\ hist[i].organism = JoinSp(SliceTo(words, 2))
           /\ hist[i].cleanArg = JoinSp(SliceFrom(words, 2))

(* C4: after each parse_prokka call, returned or raised, every record of   *)
(* self.prokka has organism (a string), contigs and bases (integers >= 0). *)
C4_RequiredKeysAlways ==
  (module = "prokka" /\ pc # "lines") =>
    \A n \in DOMAIN prokka :
      /\ {KeyOrganism, KeyContigs, KeyBases} \subseteq DOMAIN prokka[n]
      /\ ~prokka[n][KeyOrganism].isNum
      /\ prokka[n][KeyContigs].isNum /\ prokka[n][KeyContigs].n >= 0
      /\ prokka[n][KeyBases].isNum /\ prokka[n][KeyBases].n >= 0

(* C9: when the deprecated flag is what forces filename naming, the        *)
(* deprecation warning is logged exactly once in a run, however many       *)
(* files are accepted.                                                     *)
C9_DeprecationWarnedOnce ==
  (module = "prokka" /\ DeprecatedBranch(cfg) /\ hist # <<>>)
    => CountKind("warning_deprecated") = 1

----------------------------------------------------------------------------
\* The body lines of the file of the last parse_rna_transcript_cov call
LastBody == BodyLines(CovFiles[lastParse.f].text)

\* The parsed first and second column of a body line of two tokens
FirstCol(line) == Coerce(SplitWs(line)[1])
SecondCol(line) == Coerce(SplitWs(line)[2])

\* The last parse_rna_transcript_cov call returned a series
CovReturned == module = "dragen" /\ lastParse.f # 0 /\ ~lastParse.raised

(* C5 as stated: a file of a header and N data lines gives a series of     *)
(* exactly N entries, one per data line, keyed by the line's parsed first  *)
(* column and holding its parsed second column.                            *)
C5_OneEntryPerDataLine ==
  CovReturned =>
    /\ Cardinality(DOMAIN lastParse.data) = Len(LastBody)
    /\ \A k \in DOMAIN LastBody :
         /\ FirstCol(LastBody[k]) \in DOMAIN lastParse.data
         /\ lastParse.data[FirstCol(LastBody[k])] = SecondCol(LastBody[k])

(* C5 amended: the call returns exactly when every body line has two       *)
(* tokens; the series then has one entry per distinct parsed first column  *)
(* (N entries exactly when the N parsed first columns differ pairwise),    *)
(* each holding the parsed second column of the last line with that key.   *)
C5_OneEntryPerDistinctKey ==
  (module = "dragen" /\ lastParse.f # 0) =>
    /\ lastParse.raised <=>
         \E k \in DOMAIN LastBody : Len(SplitWs(LastBody[k])) # 2
    /\ ~lastParse.raised =>
         /\ DOMAIN lastParse.data = {FirstCol(LastBody[k]) : k \in DOMAIN LastBody}
         /\ \A k \in DOMAIN LastBody :
              (\A j \in DOMAIN LastBody :
                  FirstCol(LastBody[j]) = FirstCol(LastBody[k]) => j <= k)
              => lastParse.data[FirstCol(LastBody[k])] = SecondCol(LastBody[k])
         /\ (Cardinality(DOMAIN lastParse.data) = Len(LastBody)) <=>
              \A j, k \in DOMAIN LastBody :
                 FirstCol(LastBody[j]) = FirstCol(LastBody[k]) => j = k

\* A returned series with fewer entries than data lines
C5_Witness ==
  /\ CovReturned
  /\ Len(LastBody) = 3
  /\ Cardinality(DOMAIN lastParse.data) = 2

----------------------------------------------------------------------------
RECURSIVE FoldRest(_, _, _)
\* A record taken through the remaining lines from line k on, up to the
\* first line that is not of the form description:value
FoldRest(rec, lines, k) ==
  IF k > Len(lines) \/ MalformedLine(lines[k])
    THEN rec
    ELSE LET parts == SplitSep(lines[k], COLON) IN
         FoldRest(IF IntOk(parts[2])
                    THEN [x \in DOMAIN rec \cup {parts[1]} |->
                            IF x = parts[1] THEN NumVal(IntOf(parts[2]))
                                            ELSE rec[x]]
                    ELSE rec,
                  lines, k + 1)

\* What a prokka file alone parses to, given the organism read from it
AloneRecord(F, organism) ==
  LET c == SplitSep(F.lines[2], COLON)[2]
      b == SplitSep(F.lines[3], COLON)[2]
      r0 == (KeyOrganism :> StrVal(organism))
  IN IF ~IntOk(c) THEN r0
     ELSE IF ~IntOk(b) THEN r0 @@ (KeyContigs :> NumVal(IntOf(c)))
     ELSE FoldRest(r0 @@ (KeyContigs :> NumVal(IntOf(c)))
                      @@ (KeyBases :> NumVal(IntOf(b))),
                   F.lines, 4)

(* C6: when two files of a run give the same sample name, the record kept  *)
(* under the name is exactly what the later file alone parses to, and one  *)
(* duplicate notice is logged per overwrite and none for a first sighting; *)
(* for the annotation parser and for the coverage parser.                  *)
C6_LastFileWins ==
  BetweenCalls =>
    /\ CountKind("debug_duplicate") = Len(hist) - Cardinality(RegisteredNames)
    /\ module = "prokka" =>
         /\ DOMAIN prokka = RegisteredNames
         /\ \A n \in DOMAIN prokka :
              prokka[n] = AloneRecord(ProkkaFiles[LastReg(n).f],
                                      LastReg(n).organism)
    /\ module = "dragen" =>
         /\ DOMAIN data_by_sample = RegisteredNames
         /\ \A n \in DOMAIN data_by_sample :
              data_by_sample[n] =
                ParseRnaTranscriptCov(CovFiles[LastReg(n).f]).data

\* Two prokka files of one sample, the first with a field the second lacks,
\* both parsed to the end
C6_Witness ==
  /\ module = "prokka" /\ pc = "loop"
  /\ Len(hist) = 2
  /\ hist[1].name = hist[2].name
  /\ hist[1].f = 1 /\ hist[2].f = 2
  /\ CountKind("debug_duplicate") = 1

----------------------------------------------------------------------------
\* The line the call under way read last, and its record
LastLine == ProkkaFiles[cur.f].lines[cur.pos - 1]
CurRecord == prokka[cur.s_name]

\* A line of an accepted file has been read and the mapping is not filtered
LineRead ==
  /\ module = "prokka" /\ cur.accepted /\ cur.pos > 4
  /\ pc \in {"lines", "loop", "raised"}

\* The effect of one description:value line: an integer value is stored
\* with no message; any other value leaves the record as it was, logs one
\* warning naming the line and does not end the loop
C7_LineEffect ==
  (LineRead /\ ~MalformedLine(LastLine)) =>
    LET parts == SplitSep(LastLine, COLON) IN
    IF IntOk(parts[2])
      THEN /\ parts[1] \in DOMAIN CurRecord
           /\ CurRecord[parts[1]] = NumVal(IntOf(parts[2]))
           /\ \A x \in DOMAIN cur.before \ {parts[1]} :
                x \in DOMAIN CurRecord /\ CurRecord[x] = cur.before[x]
           /\ DOMAIN CurRecord = DOMAIN cur.before \cup {parts[1]}
           /\ Len(log) = cur.logBefore
      ELSE /\ CurRecord = cur.before
           /\ Len(log) = cur.logBefore + 1
           /\ log[Len(log)] = Msg("warning_line", LastLine)
           /\ pc # "raised"

\* parse_prokka has just returned from an accepted file
ParseReturned ==
  /\ module = "prokka" /\ pc = "loop" /\ cur.accepted
  /\ cur.pos > Len(ProkkaFiles[cur.f].lines)

\* The descriptions of the remaining lines whose value is an integer
IntDescriptions(F) ==
  {SplitSep(F.lines[k], COLON)[1] :
     k \in {j \in RestLines(F) : IntOk(SplitSep(F.lines[j], COLON)[2])}}

----------------------------------------------------------------------------
(* C8: parse_prokka on a file whose first three lines do not carry the     *)
(* three prefixes returns without raising and changes neither the mapping  *)
(* nor the log nor the data sources; a record is registered only for a     *)
(* file whose three prefixes match.                                        *)
C8_DeclineChangesNothing ==
  [][ (module = "prokka" /\ pc = "loop" /\ nfiles' = nfiles + 1) =>
        IF Signature(ProkkaFiles[cur'.f])
          THEN cur'.accepted /\ hist' # hist
          ELSE /\ ~cur'.accepted
               /\ pc' = "loop"
               /\ prokka' = prokka /\ log' = log /\ sources' = sources
               /\ hist' = hist /\ outputs' = outputs ]_vars

\* A file is declined after another one was registered
C8_Witness ==
  /\ module = "prokka" /\ pc = "loop"
  /\ cur.f = 5 /\ ~cur.accepted
  /\ Len(hist) = 1 /\ Len(sources) = 1

----------------------------------------------------------------------------
(* C10: when the mapping holds no record once all files are processed and  *)
(* the ignore filter is applied, ModuleNoSamplesFound is raised before     *)
(* anything is written; with at least one record it is not raised.         *)
C10_NoSamplesSignal ==
  module = "prokka" =>
    /\ pc = "no_samples" => (DOMAIN prokka = {} /\ outputs = {})
    /\ pc = "done" =>
         /\ DOMAIN prokka # {}
         /\ {"data_file", "general_stats"} \subseteq outputs
    /\ (pc \notin {"no_samples", "done"}) => outputs = {}

\* Every file of the run was declined and the signal was raised
C10_Witness ==
  /\ module = "prokka" /\ pc = "no_samples"
  /\ nfiles = MaxFiles /\ hist = <<>>

====
